---- MODULE Spec2Model ----
(***************************************************************************)
(* A model of the bucket allocator of src/opt_malloc.c: the 256-bit        *)
(* occupancy bitstrings, the per-class rings of chunks around the static   *)
(* heads head_bucket_list[8], the large-allocation path over mmap/munmap,  *)
(* and the three entry points xmalloc, xfree and xrealloc.                 *)
(*                                                                         *)
(* Addresses are integers.  A 64-bit word is the set of the positions of   *)
(* its 0 bits (0 = least significant): the all-ones word is {}, the zero   *)
(* word 0..63.  A bitstring is the four words s[0..3].                     *)
(***************************************************************************)
EXTENDS Integers, Sequences, FiniteSets, Bags, TLC

(***************************************************************************)
(* Bounds of the model (the callers and the address space).                *)
(***************************************************************************)
\* live allocations at a time under the mixed and the realloc workload
MaxLive == 2
\* live allocations at a time under the fill workload (one class, 15 slots a chunk)
MaxFill == 30
\* xfree calls made by the fill workload
MaxFillFrees == 1
\* regions of the address space mmap can hand out
MaxMaps == 2
\* pages between two region bases
RegionPages == 17
\* the request size of the fill workload
FillBytes == 4000
\* threads calling the allocator at once
NThreads == 2

(***************************************************************************)
(* Program constants.                                                      *)
(***************************************************************************)
NULL == 0
MAP_FAILED == -1
PAGE_SIZE == 4096
SizeofChunkHead == 16
SizeofBucketHead == 64
\* a block_head of four bytes (a 32-bit pointer)
SizeofBlockHead_packed == 8 \div 2
SizeofBlockHead == 8
\* the address of the static array head_bucket_list
HeadBase == 1024
\* a size_t is held by its two's-complement representative: 2^64 - k is -k, so
\* that + is the addition modulo 2^64 for the values near 0 and near 2^64
SIZE_MAX == -1
\* a < b for two size_t
ULess(a, b) == IF (a < 0) = (b < 0) THEN a < b ELSE b < 0

(***************************************************************************)
(* All about bitmaps.                                                      *)
(***************************************************************************)
\* 0xFFFFFFFFFFFFFFFF
FULL_ULL == {}
\* 0ULL
ZERO_ULL == 0..63
\* the word 0xFF..F << k: bits k..63 are 1, bits 0..k-1 are 0
HighBits(k) == 0..(k - 1)
MkBitstring(s0, s1, s2, s3) ==
    [w \in 0..3 |-> CASE w = 0 -> s0 [] w = 1 -> s1 [] w = 2 -> s2 [] OTHER -> s3]

FILLED_STRING == MkBitstring(FULL_ULL, FULL_ULL, FULL_ULL, FULL_ULL)
EMPTY_STRING == MkBitstring(ZERO_ULL, ZERO_ULL, ZERO_ULL, ZERO_ULL)

EQUAL(a, b) == a[0] = b[0] /\ a[1] = b[1] /\ a[2] = b[2] /\ a[3] = b[3]

MinOf(S) == CHOOSE x \in S : \A y \in S : x <= y
\* __builtin_ffsll(~x): one plus the position of the least significant 0 bit of x
ffsll_not(x) == IF x = {} THEN 0 ELSE 1 + MinOf(x)

\* NFFS with the words tried in array order
NFFS_array_order(a) ==
    LET pos0 == ffsll_not(a[0])
        pos1 == ffsll_not(a[1])
        pos2 == ffsll_not(a[2])
        pos3 == ffsll_not(a[3])
    IN  IF pos0 # 0 THEN pos0
        ELSE IF pos1 # 0 THEN pos1 + 64
        ELSE IF pos2 # 0 THEN pos2 + 128
        ELSE IF pos3 # 0 THEN pos3 + 192
        ELSE 0

NFFS(a) ==
    LET pos0 == ffsll_not(a[0])
        pos1 == ffsll_not(a[1])
        pos2 == ffsll_not(a[2])
        pos3 == ffsll_not(a[3])
    IN  IF pos3 # 0 THEN pos3
        ELSE IF pos2 # 0 THEN pos2 + 64
        ELSE IF pos1 # 0 THEN pos1 + 128
        ELSE IF pos0 # 0 THEN pos0 + 192
        ELSE 0

\* x ^= 1ULL << k
XorBit(x, k) == IF k \in x THEN x \ {k} ELSE x \cup {k}

\* the guard of FLIP's assert
FlipInRange(index) == index >= 0 /\ index < 256

\* FLIP with the words taken in array order
FLIP_array_order(a, index) ==
    IF index <= 63 THEN [a EXCEPT ![0] = XorBit(@, index)]
    ELSE IF index <= 127 THEN [a EXCEPT ![1] = XorBit(@, index - 64)]
    ELSE IF index <= 191 THEN [a EXCEPT ![2] = XorBit(@, index - 128)]
    ELSE [a EXCEPT ![3] = XorBit(@, index - 192)]

FLIP(a, index) ==
    IF index <= 63 THEN [a EXCEPT ![3] = XorBit(@, index)]
    ELSE IF index <= 127 THEN [a EXCEPT ![2] = XorBit(@, index - 64)]
    ELSE IF index <= 191 THEN [a EXCEPT ![1] = XorBit(@, index - 128)]
    ELSE [a EXCEPT ![0] = XorBit(@, index - 192)]

(***************************************************************************)
(* All about chunks and buckets.                                           *)
(***************************************************************************)
BUCKET24 == MkBitstring(FULL_ULL, HighBits(40), ZERO_ULL, ZERO_ULL)
BUCKET32 == MkBitstring(FULL_ULL, FULL_ULL, HighBits(62), ZERO_ULL)
BUCKET40 == MkBitstring(FULL_ULL, FULL_ULL, HighBits(36), ZERO_ULL)
BUCKET72 == MkBitstring(FULL_ULL, FULL_ULL, FULL_ULL, HighBits(56))
BUCKET520 == MkBitstring(FULL_ULL, FULL_ULL, FULL_ULL, HighBits(62))
BUCKET1032 == MkBitstring(FULL_ULL, FULL_ULL, FULL_ULL, HighBits(63))
BUCKET2056 == MkBitstring(FULL_ULL, FULL_ULL, FULL_ULL, HighBits(31))
\* a pattern for the last class with a sixteenth slot
BUCKET4104_sixteen == MkBitstring(FULL_ULL, FULL_ULL, FULL_ULL, HighBits(16))
BUCKET4104 == MkBitstring(FULL_ULL, FULL_ULL, FULL_ULL, HighBits(15))

SUPPORTED_BUCKETS_BITSTRINGS ==
    [i \in 0..7 |-> CASE i = 0 -> BUCKET24 [] i = 1 -> BUCKET32
                      [] i = 2 -> BUCKET40 [] i = 3 -> BUCKET72
                      [] i = 4 -> BUCKET520 [] i = 5 -> BUCKET1032
                      [] i = 6 -> BUCKET2056 [] OTHER -> BUCKET4104]

SUPPORTED_BUCKETS_SIZES ==
    [i \in 0..7 |-> CASE i = 0 -> 24 [] i = 1 -> 32 [] i = 2 -> 40 [] i = 3 -> 72
                      [] i = 4 -> 520 [] i = 5 -> 1032 [] i = 6 -> 2056
                      [] OTHER -> 4104]

SUPPORTED_BUCKETS_PAGES ==
    [i \in 0..7 |-> CASE i \in 0..3 -> 1 [] i = 4 -> 8 [] OTHER -> 16]

\* the allocations each class is meant to allow in a chunk (the comments beside
\* the patterns)
SlotCount ==
    [i \in 0..7 |-> CASE i = 0 -> 168 [] i = 1 -> 126 [] i = 2 -> 100 [] i = 3 -> 56
                      [] i = 4 -> 62 [] i = 5 -> 63 [] i = 6 -> 31 [] OTHER -> 15]

\* a bucket_head (its first two fields are the chunk_head) as mmap's zero fill leaves it
ZeroHead ==
    [chunk_size |-> 0, bucket_index |-> 0, next |-> NULL, prev |-> NULL,
     allocations |-> EMPTY_STRING]

(***************************************************************************)
(* The program state.                                                      *)
(*   initialized       the global flag                                     *)
(*   head_bucket_list  the eight static list heads                         *)
(*   chunks            the header at the base of every mapping             *)
(*   blocks            block_head.parent_chunk, by the block_head's address*)
(*   mapped            the pages currently mapped                          *)
(*   data              the first byte of a block, by the block's address   *)
(*                     (absent: the zero of a fresh mapping)               *)
(*   status            "running", "aborted" (abort()), "segv" or "hung"    *)
(* and the callers' view:                                                  *)
(*   live              the bag of allocations handed out and not yet freed *)
(*   last              the last call: its arguments, result, state before  *)
(*   workload, nfrees  which requests the callers make                     *)
(*   pc, loc           each thread's place in its call and its locals      *)
(***************************************************************************)
VARIABLES initialized, head_bucket_list, chunks, blocks, mapped, data, status,
          live, last, workload, nfrees, pc, loc

(***************************************************************************)
(* The state of xv6_malloc.c, the other allocator of the repository:       *)
(*   lock              the mutex: PTHREAD_MUTEX_INITIALIZER, or its holder *)
(*   freep             the start of the free list, 0 before the first call *)
(*   headers           the Header at an address: base, and every Header    *)
(*                     written in a mapping                                *)
(*   xmaps             the number of mappings morecore has made            *)
(*   xstatus           "running", "segv" or "hung"                         *)
(*   xlive             the allocations handed out and not yet given back   *)
(*   xlast             the last memcpy of xrealloc or failure of morecore  *)
(*   xcalls            the number of calls the callers have made           *)
(*   xpc, xloc         each thread's place in its call and its locals      *)
(***************************************************************************)
VARIABLES lock, freep, headers, xmaps, xstatus, xlive, xlast, xcalls, xpc, xloc

OptVars == <<initialized, head_bucket_list, chunks, blocks, mapped, data, status,
             live, last, workload, nfrees, pc, loc>>
XvVars == <<lock, freep, headers, xmaps, xstatus, xlive, xlast, xcalls, xpc, xloc>>

vars == <<initialized, head_bucket_list, chunks, blocks, mapped, data, status,
          live, last, workload, nfrees, pc, loc,
          lock, freep, headers, xmaps, xstatus, xlive, xlast, xcalls, xpc, xloc>>

\* the allocator's memory as one value
Heap ==
    [initialized |-> initialized, head_bucket_list |-> head_bucket_list,
     chunks |-> chunks, blocks |-> blocks, mapped |-> mapped, data |-> data]

HeadAddr(i) == HeadBase + i * SizeofBucketHead
HeadAddrs == {HeadAddr(i) : i \in 0..7}
HeadIndex(a) == (a - HeadBase) \div SizeofBucketHead

\* *(bucket_head*)a and its assignment
Load(h, a) ==
    IF a \in HeadAddrs THEN h.head_bucket_list[HeadIndex(a)] ELSE h.chunks[a]
Store(h, a, rec) ==
    IF a \in HeadAddrs THEN [h EXCEPT !.head_bucket_list[HeadIndex(a)] = rec]
    ELSE [h EXCEPT !.chunks[a] = rec]

PageOf(a) == a \div PAGE_SIZE
\* an address the process may read: static data or a mapped page
Readable(h, a) == a \in HeadAddrs \/ (a >= 0 /\ PageOf(a) \in h.mapped)
\* an address that holds a header: a list head or the base of a mapping
HoldsHead(h, a) == a \in HeadAddrs \/ (Readable(h, a) /\ a \in DOMAIN h.chunks)

(***************************************************************************)
(* The kernel: mmap and munmap over MaxMaps regions.                       *)
(***************************************************************************)
RegionBase(k) == k * RegionPages * PAGE_SIZE
RegionPagesOf(k) == (k * RegionPages)..(k * RegionPages + RegionPages - 1)
\* what mmap(0, len, ...) returns: the base of the lowest region with no mapped
\* page, MAP_FAILED when there is none or len is not a length it can map
MmapResults(h, len) ==
    LET free == {k \in 1..MaxMaps : RegionPagesOf(k) \cap h.mapped = {}}
    IN  IF free = {} \/ len <= 0 \/ len > RegionPages * PAGE_SIZE
        THEN {MAP_FAILED}
        ELSE {RegionBase(CHOOSE k \in free : \A j \in free : k <= j)}

PagesFor(len) == (len + PAGE_SIZE - 1) \div PAGE_SIZE

\* memory after mmap returned map for len bytes: the pages are mapped and zero
Mmap(h, map, len) ==
    [h EXCEPT !.mapped = @ \cup (PageOf(map)..(PageOf(map) + PagesFor(len) - 1)),
              !.chunks = (map :> ZeroHead) @@ @]

\* munmap releasing only the pages that lie wholly in [addr, addr+len)
Munmap_whole_pages(h, addr, len) ==
    LET gone == PageOf(addr)..(PageOf(addr) + (len \div PAGE_SIZE) - 1)
    IN  [h EXCEPT !.mapped = @ \ gone,
                  !.chunks = [a \in {x \in DOMAIN @ : PageOf(x) \notin gone} |-> @[a]],
                  !.blocks = [a \in {x \in DOMAIN @ : PageOf(x) \notin gone} |-> @[a]],
                  !.data = [a \in {x \in DOMAIN @ : PageOf(x) \notin gone} |-> @[a]]]

\* memory after munmap(addr, len): every page holding a byte of [addr, addr+len) goes
Munmap(h, addr, len) ==
    LET gone == PageOf(addr)..(PageOf(addr) + PagesFor(len) - 1)
    IN  [h EXCEPT !.mapped = @ \ gone,
                  !.chunks = [a \in {x \in DOMAIN @ : PageOf(x) \notin gone} |-> @[a]],
                  !.blocks = [a \in {x \in DOMAIN @ : PageOf(x) \notin gone} |-> @[a]],
                  !.data = [a \in {x \in DOMAIN @ : PageOf(x) \notin gone} |-> @[a]]]

(***************************************************************************)
(* Runtime code.                                                           *)
(***************************************************************************)
\* the body of initialize()'s if: the eight heads become empty rings
InitHeads(h) ==
    [h EXCEPT !.head_bucket_list =
        [i \in 0..7 |->
            [chunk_size |-> 0, bucket_index |-> 1, next |-> HeadAddr(i),
             prev |-> HeadAddr(i), allocations |-> FILLED_STRING]]]

initialize(h) ==
    IF h.initialized = 0 THEN [InitHeads(h) EXCEPT !.initialized = 1] ELSE h

RECURSIVE BucketScan(_, _)
\* the for loop of get_bucket from index i on
BucketScan(bytes, i) ==
    IF i >= 8 THEN -1
    ELSE IF ULess(bytes, SUPPORTED_BUCKETS_SIZES[i]) THEN i
    ELSE BucketScan(bytes, i + 1)

get_bucket(bytes) == BucketScan(bytes, 0)

pages_needed(bytes) ==
    LET pages == bytes \div PAGE_SIZE
    IN  IF pages * PAGE_SIZE < bytes THEN pages + 1 ELSE pages

\* every runtime step yields the memory, a result and how the process goes on
Ok(h, ret) == [h |-> h, ret |-> ret, status |-> "running"]
Abort(h) == [h |-> h, ret |-> NULL, status |-> "aborted"]
Segv(h) == [h |-> h, ret |-> NULL, status |-> "segv"]
Hang(h) == [h |-> h, ret |-> NULL, status |-> "hung"]

\* xbig_malloc(size), with map the value mmap returns
xbig_malloc(h, size, map) ==
    LET big_alloc_size == size + SizeofChunkHead
        pages == pages_needed(big_alloc_size)
    IN  IF map = MAP_FAILED THEN Abort(h)
        ELSE
        LET h1 == Mmap(h, map, pages * PAGE_SIZE)
            h2 == Store(h1, map, [Load(h1, map) EXCEPT
                                     !.chunk_size = big_alloc_size,
                                     !.bucket_index = -1])
            location == map + SizeofChunkHead
            h3 == [h2 EXCEPT !.blocks = (location :> map) @@ @]
        IN  Ok(h3, location + SizeofBlockHead)

\* the length xbig_malloc passes to mmap
BigMapLen(size) == pages_needed(size + SizeofChunkHead) * PAGE_SIZE
\* the length allocate_bucket passes to mmap
BucketMapLen(b_index) == SUPPORTED_BUCKETS_PAGES[b_index] * PAGE_SIZE

\* allocate_bucket without the line that fixes the prev link of the node in front
allocate_bucket_forward_only(h, b_index, map) ==
    LET chunk_size == BucketMapLen(b_index)
        head == HeadAddr(b_index)
    IN  IF map = MAP_FAILED THEN Abort(h)
        ELSE
        LET h1 == Mmap(h, map, chunk_size)
            h2 == Store(h1, map, [Load(h1, map) EXCEPT
                                     !.chunk_size = chunk_size,
                                     !.bucket_index = b_index])
            h3 == Store(h2, map, [Load(h2, map) EXCEPT
                                     !.next = Load(h2, head).next])
            h5 == Store(h3, map, [Load(h3, map) EXCEPT !.prev = head])
            h6 == Store(h5, head, [Load(h5, head) EXCEPT !.next = map])
            h7 == Store(h6, map, [Load(h6, map) EXCEPT
                                     !.allocations =
                                         SUPPORTED_BUCKETS_BITSTRINGS[b_index]])
        IN  Ok(h7, map)

\* allocate_bucket(b_index), with map the value mmap returns
allocate_bucket(h, b_index, map) ==
    LET chunk_size == BucketMapLen(b_index)
        head == HeadAddr(b_index)
    IN  IF map = MAP_FAILED THEN Abort(h)
        ELSE
        LET h1 == Mmap(h, map, chunk_size)
            h2 == Store(h1, map, [Load(h1, map) EXCEPT
                                     !.chunk_size = chunk_size,
                                     !.bucket_index = b_index])
            h3 == Store(h2, map, [Load(h2, map) EXCEPT
                                     !.next = Load(h2, head).next])
            nx == Load(h3, map).next
            h4 == Store(h3, nx, [Load(h3, nx) EXCEPT !.prev = map])
            h5 == Store(h4, map, [Load(h4, map) EXCEPT !.prev = head])
            h6 == Store(h5, head, [Load(h5, head) EXCEPT !.next = map])
            h7 == Store(h6, map, [Load(h6, map) EXCEPT
                                     !.allocations =
                                         SUPPORTED_BUCKETS_BITSTRINGS[b_index]])
        IN  Ok(h7, map)

\* what SeekFree yields for a walk that never comes back to the head
LOOPS == -2

\* the while loop that gives up at the first filled chunk
SeekFree_no_walk(h, b_index, current_bucket, fuel) ==
    IF current_bucket = HeadAddr(b_index) THEN current_bucket
    ELSE IF ~HoldsHead(h, current_bucket) THEN NULL
    ELSE IF fuel = 0 THEN LOOPS
    ELSE IF EQUAL(Load(h, current_bucket).allocations, FILLED_STRING)
         THEN HeadAddr(b_index)
    ELSE current_bucket

RECURSIVE SeekFree(_, _, _, _)
\* the while loop of find_free_bucket_space from current_bucket on; fuel bounds the
\* walk of a ring that no longer leads back to its head
SeekFree(h, b_index, current_bucket, fuel) ==
    IF current_bucket = HeadAddr(b_index) THEN current_bucket
    ELSE IF ~HoldsHead(h, current_bucket) THEN NULL
    ELSE IF fuel = 0 THEN LOOPS
    ELSE IF EQUAL(Load(h, current_bucket).allocations, FILLED_STRING)
         THEN SeekFree(h, b_index, Load(h, current_bucket).next, fuel - 1)
    ELSE current_bucket

\* whether find_free_bucket_space(b_index) calls allocate_bucket
NeedsBucket(h, b_index) ==
    SeekFree(h, b_index, Load(h, HeadAddr(b_index)).next, MaxMaps + 1)
        = HeadAddr(b_index)

find_free_bucket_space(h, b_index, map) ==
    LET current_bucket ==
            SeekFree(h, b_index, Load(h, HeadAddr(b_index)).next, MaxMaps + 1)
    IN  IF current_bucket = NULL THEN Segv(h)
        ELSE IF current_bucket = LOOPS THEN Hang(h)
        ELSE IF current_bucket = HeadAddr(b_index)
             THEN allocate_bucket(h, b_index, map)
        ELSE Ok(h, current_bucket)

\* the address of slot free_index's block_head in the chunk at free_bucket
SlotLocation(free_bucket, free_index, b_index) ==
    (free_bucket + SizeofBucketHead) + free_index * SUPPORTED_BUCKETS_SIZES[b_index]

\* xmalloc's free_index for the chunk at free_bucket
FreeIndex(h, free_bucket) == NFFS(Load(h, free_bucket).allocations) - 1

\* FLIP(&(bucket->allocations), index): a failed assert aborts
FlipSlot(h, bucket, index) ==
    IF ~FlipInRange(index) THEN Abort(h)
    ELSE Ok(Store(h, bucket, [Load(h, bucket) EXCEPT
                                  !.allocations = FLIP(@, index)]), NULL)

\* the end of xmalloc: the slot's back-reference is written, its block returned
WriteBlockHead(h, free_bucket, free_index, b_index) ==
    LET location == SlotLocation(free_bucket, free_index, b_index)
        h1 == [h EXCEPT !.blocks =
                  IF location \in DOMAIN @
                  THEN [@ EXCEPT ![location] = free_bucket]
                  ELSE (location :> free_bucket) @@ @]
    IN  Ok(h1, location + SizeofBlockHead)

\* the else branch of xmalloc after find_free_bucket_space returned free_bucket
CarveSlot(h, free_bucket, b_index) ==
    LET free_index == FreeIndex(h, free_bucket)
        f == FlipSlot(h, free_bucket, free_index)
    IN  IF f.status # "running" THEN f
        ELSE WriteBlockHead(f.h, free_bucket, free_index, b_index)

\* xmalloc(bytes), with map the value mmap returns if it is called
xmalloc(h, bytes, map) ==
    LET h0 == initialize(h)
        size == bytes + SizeofBlockHead
        b_index == get_bucket(size)
    IN  IF b_index = -1 THEN xbig_malloc(h0, size, map)
        ELSE
        LET r == find_free_bucket_space(h0, b_index, map)
        IN  IF r.status # "running" THEN r
            ELSE CarveSlot(r.h, r.ret, b_index)

\* the length of the mmap call xmalloc(bytes) makes in memory h, 0 if it makes none
XmallocMapLen(h, bytes) ==
    LET h0 == initialize(h)
        size == bytes + SizeofBlockHead
        b_index == get_bucket(size)
    IN  IF b_index = -1 THEN BigMapLen(size)
        ELSE IF NeedsBucket(h0, b_index) THEN BucketMapLen(b_index)
        ELSE 0

xbig_free(h, item_head) ==
    LET item_chunk_head == h.blocks[item_head]
    IN  Ok(Munmap(h, item_chunk_head, Load(h, item_chunk_head).chunk_size), NULL)

\* item_index counted from the base of the chunk, not from the end of its bucket_head
ItemIndex_from_chunk_base(h, item_head, item_chunk_head) ==
    (item_head - item_chunk_head)
        \div SUPPORTED_BUCKETS_SIZES[Load(h, item_chunk_head).bucket_index]

\* xfree's item_index for the block_head at item_head in the chunk at item_chunk_head
ItemIndex(h, item_head, item_chunk_head) ==
    (item_head - (item_chunk_head + SizeofBucketHead))
        \div SUPPORTED_BUCKETS_SIZES[Load(h, item_chunk_head).bucket_index]

\* the emptiness test made against the all-zero string
UnlinkIfEmpty_zero_pattern(h, item_bucket_head, b_index) ==
    LET me == Load(h, item_bucket_head)
    IN  IF EQUAL(me.allocations, EMPTY_STRING)
        THEN LET h1 == Store(h, me.prev, [Load(h, me.prev) EXCEPT !.next = me.next])
                 h2 == Store(h1, me.next, [Load(h1, me.next) EXCEPT !.prev = me.prev])
             IN  Ok(h2, NULL)
        ELSE Ok(h, NULL)

\* the end of xfree: a chunk whose map is its class's empty pattern is unlinked
UnlinkIfEmpty(h, item_bucket_head, b_index) ==
    LET me == Load(h, item_bucket_head)
    IN  IF EQUAL(me.allocations, SUPPORTED_BUCKETS_BITSTRINGS[b_index])
        THEN LET h1 == Store(h, me.prev, [Load(h, me.prev) EXCEPT !.next = me.next])
                 h2 == Store(h1, me.next, [Load(h1, me.next) EXCEPT !.prev = me.prev])
             IN  Ok(h2, NULL)
        ELSE Ok(h, NULL)

\* the else branch of xfree
BucketFree(h, item_head, item_chunk_head) ==
    LET b_index == Load(h, item_chunk_head).bucket_index
        item_index == ItemIndex(h, item_head, item_chunk_head)
        f == FlipSlot(h, item_chunk_head, item_index)
    IN  IF f.status # "running" THEN f
        ELSE UnlinkIfEmpty(f.h, item_chunk_head, b_index)

\* the chunk header the block_head at item_head names; NULL where the memory is
\* still the zero of its mapping
ParentChunk(h, item_head) ==
    IF item_head \in DOMAIN h.blocks THEN h.blocks[item_head] ELSE NULL

\* xfree(ptr): reading an unmapped address ends the process
xfree(h, ptr) ==
    LET item_head == ptr - SizeofBlockHead
    IN  IF ~Readable(h, item_head) THEN Segv(h)
        ELSE
        LET item_chunk_head == ParentChunk(h, item_head)
        IN  IF ~HoldsHead(h, item_chunk_head) THEN Segv(h)
            ELSE IF Load(h, item_chunk_head).bucket_index = -1
                 THEN xbig_free(h, item_head)
            ELSE BucketFree(h, item_head, item_chunk_head)

\* xrealloc(prev, bytes)
xrealloc(h, prev, bytes) == Ok(h, 0)

(***************************************************************************)
(* xv6_malloc.c: the free list of Kernighan and Ritchie behind one mutex.  *)
(* A Header is [ptr, size], size in units of sizeof(Header).               *)
(***************************************************************************)
\* sizeof(Header): a pointer and an unsigned int, aligned as a long
SizeofHeader == 16
\* the value of the mutex nobody holds
PTHREAD_MUTEX_INITIALIZER == 0
\* &base, the address of the static Header the list starts from
BaseAddr == 512
\* the fewest units morecore asks the kernel for
MinUnits == 4096
\* the mappings the kernel grants before mmap fails for good
XvMaxMaps == 1
\* the allocations the callers hold or are asking for at a time
XvMaxLive == 2
\* the calls the callers make in a run
XvMaxCalls == 3

\* the static Header base, zero before the first call
ZeroHeader == [ptr |-> NULL, size |-> 0]
\* the Header at address a (the bytes of a fresh mapping are zero)
HeaderAt(hd, a) == IF a \in DOMAIN hd THEN hd[a] ELSE ZeroHeader
\* *a = v
StoreHeader(hd, a, v) == (a :> v) @@ hd
\* a block joined to the one before it: its Header becomes bytes inside that
\* block, which the code no longer reads as a Header
JoinedAway(hd, a) == [x \in DOMAIN hd \ {a} |-> hd[x]]
\* p + n, Header pointer arithmetic
UnitsOn(p, n) == p + n * SizeofHeader

\* the address mmap gives the k-th mapping: mappings lie apart, above base
XvMapAddr(k) == (k + 1) * 2 * MinUnits * SizeofHeader
\* what mmap may return: a new mapping, or (char*)-1
XvMmapResults(k) == {MAP_FAILED} \cup (IF k < XvMaxMaps THEN {XvMapAddr(k)} ELSE {})

RECURSIVE FreeSpot(_, _, _, _)
\* xfree_helper's loop: the free block p after which bp belongs
\* (-1: the loop does not end)
FreeSpot(hd, bp, p, fuel) ==
    IF fuel = 0 THEN -1
    ELSE IF bp > p /\ bp < HeaderAt(hd, p).ptr THEN p
    ELSE IF p >= HeaderAt(hd, p).ptr /\ (bp > p \/ bp < HeaderAt(hd, p).ptr) THEN p
    ELSE FreeSpot(hd, bp, HeaderAt(hd, p).ptr, fuel - 1)

\* xfree_helper(ap): the block is linked after p, and joined to its neighbours
xfree_helper(hd, fp, ap) ==
    LET bp == ap - SizeofHeader
        p == FreeSpot(hd, bp, fp, Cardinality(DOMAIN hd) + 1)
        nxt == HeaderAt(hd, p).ptr
        h1 == IF UnitsOn(bp, HeaderAt(hd, bp).size) = nxt
              THEN JoinedAway(
                       StoreHeader(hd, bp,
                           [ptr |-> HeaderAt(hd, nxt).ptr,
                            size |-> HeaderAt(hd, bp).size + HeaderAt(hd, nxt).size]),
                       nxt)
              ELSE StoreHeader(hd, bp, [ptr |-> nxt, size |-> HeaderAt(hd, bp).size])
        h2 == IF UnitsOn(p, HeaderAt(h1, p).size) = bp
              THEN JoinedAway(
                       StoreHeader(h1, p,
                           [ptr |-> HeaderAt(h1, bp).ptr,
                            size |-> HeaderAt(h1, p).size + HeaderAt(h1, bp).size]),
                       bp)
              ELSE StoreHeader(h1, p, [ptr |-> bp, size |-> HeaderAt(h1, p).size])
    IN  IF p = -1 THEN [headers |-> hd, freep |-> fp, status |-> "hung"]
        ELSE [headers |-> h2, freep |-> p, status |-> "running"]

\* morecore(nu), map what mmap returned: the new block is put on the free list
morecore(hd, fp, nu, map) ==
    LET units == IF nu < MinUnits THEN MinUnits ELSE nu
        hp == map
    IN  IF map = MAP_FAILED THEN [headers |-> hd, freep |-> fp, ret |-> 0,
                                  status |-> "running"]
        ELSE LET r == xfree_helper(StoreHeader(hd, hp, [ptr |-> HeaderAt(hd, hp).ptr,
                                                        size |-> units]),
                                   fp, UnitsOn(hp, 1))
             IN  [headers |-> r.headers, freep |-> r.freep, ret |-> r.freep,
                  status |-> r.status]

\* nunits = (nbytes + sizeof(Header) - 1)/sizeof(Header) + 1
NUnits(nbytes) == (nbytes + SizeofHeader - 1) \div SizeofHeader + 1

\* the bytes a caller may use in the block at ap
UsableBytes(hd, ap) == (HeaderAt(hd, ap - SizeofHeader).size - 1) * SizeofHeader

\* the byte count xrealloc hands to memcpy
CopyLen(block_size, nn) ==
    IF block_size < nn THEN block_size - SizeofHeader ELSE nn

(***************************************************************************)
(* The callers.                                                            *)
(***************************************************************************)
\* the mixed workload asks for a small block and for a block past the last class
\* (the fill workload asks for blocks of the last class); the realloc workload
\* for small blocks
MixedSizes == {16, 4096}
ReallocSizes == {16}
\* the request whose footprint bytes + sizeof(block_head) is 2^64
WrapBytes == SIZE_MAX - 7
\* the wrap workload asks for a small block and for nearly all of the address space
WrapSizes == {16, WrapBytes}
AllSizes == MixedSizes \cup {FillBytes} \cup ReallocSizes \cup WrapSizes
\* the byte a caller writes into its block
PokeByte == 165

LivePtrs == {a.ptr : a \in BagToSet(live)}
NLive == BagCardinality(live)
\* the byte count an allocation at p was asked for
AskedAt(p) == (CHOOSE a \in BagToSet(live) : a.ptr = p).n
\* the first byte of the block at p
ByteAt(h, p) == IF p \in DOMAIN h.data THEN h.data[p] ELSE 0

NoCall ==
    [op |-> "none", arg |-> NULL, n |-> 0, ret |-> NULL, b_index |-> -1,
     map |-> NULL, pre |-> <<>>, paired |-> FALSE, pre0 |-> <<>>]

SetHeap(h) ==
    /\ initialized' = h.initialized
    /\ head_bucket_list' = h.head_bucket_list
    /\ chunks' = h.chunks
    /\ blocks' = h.blocks
    /\ mapped' = h.mapped
    /\ data' = h.data

Threads == 1..NThreads
NoLocals == [bytes |-> 0, b_index |-> -1, free_bucket |-> NULL, free_index |-> -1,
             ptr |-> NULL]

NoXvLocals ==
    [nbytes |-> 0, nunits |-> 0, p |-> NULL, prevp |-> NULL, ap |-> NULL,
     prev |-> NULL, nn |-> 0, block_size |-> 0, new_data |-> NULL, cont |-> "idle"]
NoXvCall == [op |-> "none", t |-> 0, prev |-> NULL, nn |-> 0, cap |-> 0, copied |-> 0]

\* xv6_malloc.c before the first call
XvInit ==
    /\ lock = PTHREAD_MUTEX_INITIALIZER
    /\ freep = NULL
    /\ headers = (BaseAddr :> ZeroHeader)
    /\ xmaps = 0
    /\ xstatus = "running"
    /\ xlive = {}
    /\ xlast = NoXvCall
    /\ xcalls = 0
    /\ xpc = [t \in Threads |-> "idle"]
    /\ xloc = [t \in Threads |-> NoXvLocals]

InitMemory ==
    /\ XvInit
    /\ initialized = 0
    /\ head_bucket_list = [i \in 0..7 |-> ZeroHead]
    /\ chunks = <<>>
    /\ blocks = <<>>
    /\ mapped = {}
    /\ data = <<>>
    /\ status = "running"
    /\ live = EmptyBag
    /\ last = NoCall
    /\ nfrees = 0
    /\ pc = [t \in Threads |-> "idle"]
    /\ loc = [t \in Threads |-> NoLocals]

Init == InitMemory /\ workload \in {"mixed", "fill", "realloc", "wrap"}

\* the requests a caller makes next
MayAsk(bytes) ==
    \/ workload = "mixed" /\ bytes \in MixedSizes /\ NLive < MaxLive
    \/ workload = "fill" /\ bytes = FillBytes /\ NLive < MaxFill
    \/ workload = "realloc" /\ bytes \in ReallocSizes /\ NLive < MaxLive
    \/ workload = "wrap" /\ bytes \in WrapSizes /\ NLive < MaxLive
MayFree ==
    \/ workload \in {"mixed", "realloc", "wrap"}
    \/ workload = "fill" /\ nfrees < MaxFillFrees

\* a call of xmalloc(bytes)
Xmalloc(bytes) ==
    /\ status = "running"
    /\ MayAsk(bytes)
    /\ LET len == XmallocMapLen(Heap, bytes)
       IN  \E map \in (IF len = 0 THEN {NULL} ELSE MmapResults(Heap, len)) :
             LET r == xmalloc(Heap, bytes, map)
             IN  /\ SetHeap(r.h)
                 /\ status' = r.status
                 /\ live' = IF r.status = "running"
                            THEN live (+) SetToBag({[ptr |-> r.ret, n |-> bytes]})
                            ELSE live
                 /\ last' = [NoCall EXCEPT !.op = "xmalloc", !.n = bytes,
                                           !.ret = r.ret,
                                           !.b_index = get_bucket(bytes + SizeofBlockHead),
                                           !.map = map, !.pre = Heap]
    /\ UNCHANGED <<workload, nfrees, pc, loc, XvVars>>

\* a call of xfree(ptr), ptr a live pointer or NULL
Xfree(ptr) ==
    /\ status = "running"
    /\ MayFree
    /\ ptr \in LivePtrs \cup {NULL}
    /\ LET r == xfree(Heap, ptr)
           paired == last.op = "xmalloc" /\ last.ret = ptr /\ ptr # NULL
       IN  /\ SetHeap(r.h)
           /\ status' = r.status
           /\ live' = IF r.status = "running" /\ ptr # NULL
                      THEN live (-) SetToBag({[ptr |-> ptr, n |-> AskedAt(ptr)]})
                      ELSE live
           /\ last' = [NoCall EXCEPT !.op = "xfree", !.arg = ptr,
                                     !.n = IF ptr = NULL THEN 0 ELSE AskedAt(ptr),
                                     !.pre = Heap,
                                     !.paired = paired,
                                     !.pre0 = IF paired THEN last.pre ELSE <<>>]
    /\ nfrees' = IF workload = "fill" THEN nfrees + 1 ELSE nfrees
    /\ UNCHANGED <<workload, pc, loc, XvVars>>

\* a call of xrealloc(prev, bytes), prev a live pointer or NULL
Xrealloc(prev, bytes) ==
    /\ status = "running"
    /\ workload = "realloc"
    /\ prev \in LivePtrs \cup {NULL}
    /\ bytes \in ReallocSizes \cup {0}
    /\ LET r == xrealloc(Heap, prev, bytes)
       IN  /\ SetHeap(r.h)
           /\ status' = r.status
           /\ last' = [NoCall EXCEPT !.op = "xrealloc", !.arg = prev, !.n = bytes,
                                     !.ret = r.ret, !.pre = Heap]
    /\ UNCHANGED <<live, workload, nfrees, pc, loc, XvVars>>

\* the caller stores a byte at the start of a block it holds (one store a run)
Poke(ptr) ==
    /\ status = "running"
    /\ workload = "realloc"
    /\ ptr \in LivePtrs
    /\ data = <<>>
    /\ data' = (ptr :> PokeByte) @@ data
    /\ UNCHANGED <<initialized, head_bucket_list, chunks, blocks, mapped, status,
                   live, last, workload, nfrees, pc, loc, XvVars>>

Next ==
    \/ \E bytes \in AllSizes : Xmalloc(bytes)
    \/ \E ptr \in LivePtrs \cup {NULL} : Xfree(ptr)
    \/ \E prev \in LivePtrs \cup {NULL}, bytes \in ReallocSizes \cup {0} :
         Xrealloc(prev, bytes)
    \/ \E ptr \in LivePtrs : Poke(ptr)

Spec == Init /\ [][Next]_vars

(***************************************************************************)
(* Threads.  Each thread runs its call step by step, and another thread    *)
(* may run between two steps: the code takes no lock.                      *)
(***************************************************************************)
ThreadSizes == {16, 4096}
InMalloc(t) ==
    pc[t] \in {"m_initialize", "m_init_heads", "m_init_flag", "m_find", "m_nffs",
               "m_flip", "m_return"}
\* the calls of xmalloc in progress
Asking == Cardinality({t \in Threads : InMalloc(t)})

InitMT == InitMemory /\ workload = "threads"

Goto(t, label) == pc' = [pc EXCEPT ![t] = label]
KeepCallers == UNCHANGED <<last, workload, nfrees, XvVars>>

\* thread t calls xmalloc(bytes)
T_xmalloc(t, bytes) ==
    /\ status = "running" /\ pc[t] = "idle"
    /\ NLive + Asking < MaxLive
    /\ Goto(t, "m_initialize")
    /\ loc' = [loc EXCEPT ![t] = [NoLocals EXCEPT !.bytes = bytes]]
    /\ UNCHANGED <<initialized, head_bucket_list, chunks, blocks, mapped, data,
                   status, live>>
    /\ KeepCallers

\* initialize(): the test of the flag
T_initialize(t) ==
    /\ status = "running" /\ pc[t] = "m_initialize"
    /\ Goto(t, IF initialized = 0 THEN "m_init_heads" ELSE "m_find")
    /\ UNCHANGED <<initialized, head_bucket_list, chunks, blocks, mapped, data,
                   status, live, loc>>
    /\ KeepCallers

\* initialize(): the loop over the heads
T_init_heads(t) ==
    /\ status = "running" /\ pc[t] = "m_init_heads"
    /\ SetHeap(InitHeads(Heap))
    /\ Goto(t, "m_init_flag")
    /\ UNCHANGED <<status, live, loc>>
    /\ KeepCallers

\* initialize(): initialized = 1
T_init_flag(t) ==
    /\ status = "running" /\ pc[t] = "m_init_flag"
    /\ initialized' = 1
    /\ Goto(t, "m_find")
    /\ UNCHANGED <<head_bucket_list, chunks, blocks, mapped, data, status, live, loc>>
    /\ KeepCallers

\* get_bucket, then xbig_malloc and the return, or find_free_bucket_space
T_find(t) ==
    /\ status = "running" /\ pc[t] = "m_find"
    /\ LET size == loc[t].bytes + SizeofBlockHead
           b_index == get_bucket(size)
           len == IF b_index = -1 THEN BigMapLen(size)
                  ELSE IF NeedsBucket(Heap, b_index) THEN BucketMapLen(b_index)
                  ELSE 0
       IN  \E map \in (IF len = 0 THEN {NULL} ELSE MmapResults(Heap, len)) :
             LET r == IF b_index = -1 THEN xbig_malloc(Heap, size, map)
                      ELSE find_free_bucket_space(Heap, b_index, map)
                 back == b_index = -1 /\ r.status = "running"
             IN  /\ SetHeap(r.h)
                 /\ status' = r.status
                 /\ live' = IF back
                            THEN live (+) SetToBag({[ptr |-> r.ret, n |-> loc[t].bytes]})
                            ELSE live
                 /\ Goto(t, IF b_index = -1 THEN "idle" ELSE "m_nffs")
                 /\ loc' = [loc EXCEPT ![t] = IF b_index = -1 THEN NoLocals
                                               ELSE [@ EXCEPT !.b_index = b_index,
                                                              !.free_bucket = r.ret]]
    /\ KeepCallers

\* free_index = NFFS(...) - 1
T_nffs(t) ==
    /\ status = "running" /\ pc[t] = "m_nffs"
    /\ loc' = [loc EXCEPT ![t].free_index = FreeIndex(Heap, loc[t].free_bucket)]
    /\ Goto(t, "m_flip")
    /\ UNCHANGED <<initialized, head_bucket_list, chunks, blocks, mapped, data,
                   status, live>>
    /\ KeepCallers

\* FLIP(&(free_bucket->allocations), free_index)
T_flip(t) ==
    /\ status = "running" /\ pc[t] = "m_flip"
    /\ LET r == FlipSlot(Heap, loc[t].free_bucket, loc[t].free_index)
       IN  SetHeap(r.h) /\ status' = r.status
    /\ Goto(t, "m_return")
    /\ UNCHANGED <<live, loc>>
    /\ KeepCallers

\* the back-reference is written and xmalloc returns
T_return(t) ==
    /\ status = "running" /\ pc[t] = "m_return"
    /\ LET r == WriteBlockHead(Heap, loc[t].free_bucket, loc[t].free_index,
                               loc[t].b_index)
       IN  /\ SetHeap(r.h)
           /\ live' = live (+) SetToBag({[ptr |-> r.ret, n |-> loc[t].bytes]})
    /\ Goto(t, "idle")
    /\ loc' = [loc EXCEPT ![t] = NoLocals]
    /\ UNCHANGED status
    /\ KeepCallers

\* thread t calls xfree(ptr) on a pointer it holds, and holds it no longer
T_xfree(t, ptr) ==
    /\ status = "running" /\ pc[t] = "idle"
    /\ ptr \in LivePtrs
    /\ live' = live (-) SetToBag({[ptr |-> ptr, n |-> AskedAt(ptr)]})
    /\ Goto(t, "f_read")
    /\ loc' = [loc EXCEPT ![t] = [NoLocals EXCEPT !.ptr = ptr]]
    /\ UNCHANGED <<initialized, head_bucket_list, chunks, blocks, mapped, data, status>>
    /\ KeepCallers

\* the back-reference is followed: xbig_free and the return, or item_index
T_free_read(t) ==
    /\ status = "running" /\ pc[t] = "f_read"
    /\ LET item_head == loc[t].ptr - SizeofBlockHead
           item_chunk_head == ParentChunk(Heap, item_head)
           lost == ~Readable(Heap, item_head) \/ ~HoldsHead(Heap, item_chunk_head)
           big == ~lost /\ Load(Heap, item_chunk_head).bucket_index = -1
           r == IF lost THEN Segv(Heap)
                ELSE IF big THEN xbig_free(Heap, item_head)
                ELSE Ok(Heap, NULL)
       IN  /\ SetHeap(r.h)
           /\ status' = r.status
           /\ Goto(t, IF lost \/ big THEN "idle" ELSE "f_flip")
           /\ loc' = [loc EXCEPT ![t] =
                         IF lost \/ big THEN NoLocals
                         ELSE [@ EXCEPT
                                 !.free_bucket = item_chunk_head,
                                 !.b_index = Load(Heap, item_chunk_head).bucket_index,
                                 !.free_index =
                                     ItemIndex(Heap, item_head, item_chunk_head)]]
    /\ UNCHANGED live
    /\ KeepCallers

\* FLIP(&(item_bucket_head->allocations), item_index)
T_free_flip(t) ==
    /\ status = "running" /\ pc[t] = "f_flip"
    /\ LET r == FlipSlot(Heap, loc[t].free_bucket, loc[t].free_index)
       IN  SetHeap(r.h) /\ status' = r.status
    /\ Goto(t, "f_unlink")
    /\ UNCHANGED <<live, loc>>
    /\ KeepCallers

\* the emptiness test, the unlinking and the return of xfree
T_free_unlink(t) ==
    /\ status = "running" /\ pc[t] = "f_unlink"
    /\ LET r == UnlinkIfEmpty(Heap, loc[t].free_bucket, loc[t].b_index)
       IN  SetHeap(r.h) /\ status' = r.status
    /\ Goto(t, "idle")
    /\ loc' = [loc EXCEPT ![t] = NoLocals]
    /\ UNCHANGED live
    /\ KeepCallers

NextMT ==
    \E t \in Threads :
        \/ \E bytes \in ThreadSizes : T_xmalloc(t, bytes)
        \/ T_initialize(t)
        \/ T_init_heads(t)
        \/ T_init_flag(t)
        \/ T_find(t)
        \/ T_nffs(t)
        \/ T_flip(t)
        \/ T_return(t)
        \/ \E ptr \in LivePtrs : T_xfree(t, ptr)
        \/ T_free_read(t)
        \/ T_free_flip(t)
        \/ T_free_unlink(t)

SpecMT == InitMT /\ [][NextMT]_vars

(***************************************************************************)
(* What the callers can observe.                                           *)
(***************************************************************************)
RECURSIVE RingFrom(_, _, _, _)
\* the chunks of class b_index's list from current_bucket on, following next
RingFrom(h, b_index, current_bucket, fuel) ==
    IF current_bucket = HeadAddr(b_index) \/ fuel = 0
          \/ current_bucket \notin DOMAIN h.chunks
    THEN <<>>
    ELSE <<current_bucket>>
            \o RingFrom(h, b_index, Load(h, current_bucket).next, fuel - 1)

\* the chunks linked in class b_index's list, first to last
ChunkList(h, b_index) ==
    RingFrom(h, b_index, Load(h, HeadAddr(b_index)).next, MaxMaps + 1)

\* every class list as the sequence of its chunks, each with its occupancy map
Observable(h) ==
    [b \in 0..7 |->
        [k \in 1..Len(ChunkList(h, b)) |->
            [chunk |-> ChunkList(h, b)[k],
             allocations |-> Load(h, ChunkList(h, b)[k]).allocations]]]

\* bit index of a bitstring, in the numbering FLIP and NFFS use
BitAt(a, index) ==
    IF index <= 63 THEN index \notin a[3]
    ELSE IF index <= 127 THEN (index - 64) \notin a[2]
    ELSE IF index <= 191 THEN (index - 128) \notin a[1]
    ELSE (index - 192) \notin a[0]

\* the slot indices of each class that are not out-of-range sentinels
ClassSlots == [b \in 0..7 |-> {i \in 0..255 : ~BitAt(SUPPORTED_BUCKETS_BITSTRINGS[b], i)}]
SlotsOf(b) == ClassSlots[b]
\* the pointer xmalloc hands out for slot i of the chunk at c
SlotPtr(c, i, b) == SlotLocation(c, i, b) + SizeofBlockHead
\* the live allocations whose pointer lies in the mapping at c
LiveIn(c) ==
    LET inside == {a \in BagToSet(live) :
                      a.ptr >= c /\ a.ptr < c + chunks[c].chunk_size}
    IN  BagCardinality([a \in inside |-> live[a]])
\* the chunk header an allocation's back-reference names
ParentOf(a) == chunks[blocks[a.ptr - SizeofBlockHead]]
Bucketed(a) == ParentOf(a).bucket_index # -1

(***************************************************************************)
(* The claims.                                                             *)
(***************************************************************************)
\* whether the byte range [a.ptr, a.ptr + a.n) ends at or before b.ptr; a range
\* of 2^63 bytes or more ends past every address of the model
EndsBefore(a, b) == a.n >= 0 /\ a.ptr + a.n <= b.ptr

\* C1 (as claimed): after any single-threaded sequence of xmalloc and xfree calls,
\* every xmalloc that returned gave a non-null pointer, no pointer is handed out
\* twice and the byte ranges [p, p+n) of the live allocations are pairwise disjoint.
C1_NonNullDisjoint ==
    /\ (last.op = "xmalloc" /\ status = "running") => last.ret # NULL
    /\ \A a \in BagToSet(live) : CopiesIn(a, live) = 1
    /\ \A a, b \in BagToSet(live) :
          a # b => (EndsBefore(a, b) \/ EndsBefore(b, a))

\* C2 (as claimed): however the threads' calls interleave, no pointer is handed
\* out twice and, once every call has returned, each bit of a linked chunk's map
\* is 1 exactly when its slot is handed out.
C2_NoSlotTwice ==
    /\ \A a \in BagToSet(live) : CopiesIn(a, live) = 1
    /\ \A a, b \in BagToSet(live) : a # b => a.ptr # b.ptr
    /\ (status = "running" /\ \A t \in Threads : pc[t] = "idle")
          => \A b \in 0..7 :
                \A k \in 1..Len(ChunkList(Heap, b)) :
                    LET c == ChunkList(Heap, b)[k]
                        m == chunks[c].allocations
                        handed == LivePtrs
                    IN  \A i \in SlotsOf(b) :
                           BitAt(m, i) <=> SlotPtr(c, i, b) \in handed

\* C3 (as claimed): once the live set is empty again, no bucketed chunk is mapped.
C3_EmptyLiveNoChunks ==
    (last.op = "xfree" /\ status = "running" /\ live = EmptyBag)
        => \A c \in DOMAIN chunks : chunks[c].bucket_index = -1

\* C4 (as claimed): xfree(NULL) returns normally and changes nothing.
C4_FreeNullNoop ==
    (last.op = "xfree" /\ last.arg = NULL)
        => (status = "running" /\ Heap = last.pre)

\* the smallest class index whose slot size is at least s, -1 if there is none
SmallestFit(s) ==
    LET fits == {i \in 0..7 : SUPPORTED_BUCKETS_SIZES[i] >= s}
    IN  IF fits = {} THEN -1 ELSE MinOf(fits)

\* C5 (as claimed): the class xmalloc picks for the footprint bytes + sizeof(block_head)
\* is the smallest class whose slot size is at least the footprint.
C5_SmallestFittingClass ==
    last.op = "xmalloc" => last.b_index = SmallestFit(last.n + SizeofBlockHead)

\* C6 (as claimed): xrealloc(NULL, n) does what xmalloc(n) does and returns its live
\* non-null pointer; xrealloc(p, 0) does what xfree(p) does and returns NULL.
C6_ReallocAliases ==
    /\ (last.op = "xrealloc" /\ last.arg = NULL /\ last.n > 0 /\ status = "running")
          => /\ last.ret # NULL
             /\ \E a \in BagToSet(live) : a.ptr = last.ret /\ a.n >= last.n
             /\ \E map \in MmapResults(last.pre, PAGE_SIZE) \cup {NULL} :
                   LET r == xmalloc(last.pre, last.n, map)
                   IN  r.h = Heap /\ r.ret = last.ret
    /\ (last.op = "xrealloc" /\ last.arg # NULL /\ last.n = 0 /\ status = "running")
          => /\ last.ret = NULL
             /\ last.arg \notin LivePtrs
             /\ xfree(last.pre, last.arg).h = Heap

\* C7 (as claimed): xrealloc(p, n), p live and n > 0, returns a live block of at
\* least n bytes that starts with the bytes p held, and p is freed.
C7_ReallocCopies ==
    (last.op = "xrealloc" /\ last.arg # NULL /\ last.n > 0 /\ status = "running")
        => /\ last.ret # NULL
           /\ \E a \in BagToSet(live) : a.ptr = last.ret /\ a.n >= last.n
           /\ ByteAt(Heap, last.ret) = ByteAt(last.pre, last.arg)
           /\ last.arg \notin LivePtrs

\* C8: in every chunk linked in a class list, bit i of the occupancy map is 1
\* exactly when slot i is handed out, and the 1-bits outside the sentinels are as
\* many as the live allocations in the chunk.
C8_BitsMatchLive ==
    \A b \in 0..7 :
        \A k \in 1..Len(ChunkList(Heap, b)) :
            LET c == ChunkList(Heap, b)[k]
                m == chunks[c].allocations
                handed == LivePtrs
            IN  /\ \A i \in SlotsOf(b) : BitAt(m, i) <=> SlotPtr(c, i, b) \in handed
                /\ Cardinality({i \in SlotsOf(b) : BitAt(m, i)}) = LiveIn(c)

\* a linked chunk holds a freed slot below a live one, after an xfree
C8_Witness ==
    /\ last.op = "xfree" /\ status = "running"
    /\ \E b \in 0..7 :
          \E k \in 1..Len(ChunkList(Heap, b)) :
              LET m == chunks[ChunkList(Heap, b)[k]].allocations
              IN  ~BitAt(m, 0) /\ BitAt(m, 1)

\* C9: xfree(xmalloc(n)), n bucketed, leaves every class list with the chunks, the
\* order and the occupancy maps it had before the pair.
C9_FreeMallocRestores ==
    (last.op = "xfree" /\ last.paired /\ status = "running"
        /\ get_bucket(last.n + SizeofBlockHead) # -1)
        => Observable(Heap) = Observable(last.pre0)

\* the pair made a new chunk beside a full one and unlinked it again
C9_Witness ==
    /\ last.op = "xfree" /\ last.paired /\ status = "running"
    /\ get_bucket(last.n + SizeofBlockHead) # -1
    /\ last.pre.mapped # last.pre0.mapped
    /\ ChunkList(last.pre0, get_bucket(last.n + SizeofBlockHead)) # <<>>

\* whether the pointer of every slot of every class is a multiple of 8 in a chunk
\* at base c, for each base mmap can return
SlotsAligned ==
    [c \in {RegionBase(k) : k \in 1..MaxMaps} |->
        \A b \in 0..7 : \A i \in SlotsOf(b) : SlotPtr(c, i, b) % 8 = 0]

\* C10: every pointer xmalloc hands out is a multiple of 8, and so is the pointer
\* of every slot of every class in a chunk at any mapped base.
C10_Aligned ==
    /\ \A a \in BagToSet(live) : a.ptr % 8 = 0
    /\ \A c \in DOMAIN chunks : c \in DOMAIN SlotsAligned /\ SlotsAligned[c]

\* a large block and a bucketed block in a slot past the first are live, in
\* mappings whose bases are not both multiples of two pages
C10_Witness ==
    /\ last.op = "xmalloc" /\ status = "running"
    /\ \E a \in BagToSet(live) :
          /\ Bucketed(a)
          /\ a.ptr # SlotPtr(blocks[a.ptr - SizeofBlockHead], 0, ParentOf(a).bucket_index)
          /\ PageOf(blocks[a.ptr - SizeofBlockHead]) % 2 = 1

\* the region of the address space an address lies in
RegionOf(a) == PageOf(a) \div RegionPages
\* the pages mapped in memory h for the mapping at base c
MappingPages(h, c) == RegionPagesOf(RegionOf(c)) \cap h.mapped
\* the chunks of memory h that are not bucketed
LargeChunks(h) == {c \in DOMAIN h.chunks : h.chunks[c].bucket_index = -1}
\* whether the request of n bytes goes to xbig_malloc
TooBig(n) == get_bucket(n + SizeofBlockHead) = -1

\* C11: a request too big for every class gets a fresh mapping whose bucket_index
\* is -1, a chunk with bucket_index -1 is in no class list, and xfree of a large
\* block unmaps every page of its mapping, so that no large chunk is left once no
\* large block is live.
C11_LargeChunkReleased ==
    /\ (last.op = "xmalloc" /\ status = "running" /\ TooBig(last.n))
          => /\ MappingPages(last.pre, last.map) = {}
             /\ last.map \in LargeChunks(Heap)
             /\ blocks[last.ret - SizeofBlockHead] = last.map
    /\ \A c \in LargeChunks(Heap) :
          /\ \A b \in 0..7 : \A k \in 1..Len(ChunkList(Heap, b)) :
                ChunkList(Heap, b)[k] # c
          /\ \A x \in DOMAIN chunks : chunks[x].next # c /\ chunks[x].prev # c
          /\ \A i \in 0..7 :
                head_bucket_list[i].next # c /\ head_bucket_list[i].prev # c
    /\ (last.op = "xfree" /\ status = "running" /\ last.arg # NULL /\ TooBig(last.n))
          => /\ MappingPages(Heap, last.pre.blocks[last.arg - SizeofBlockHead]) = {}
             /\ last.pre.blocks[last.arg - SizeofBlockHead] \notin DOMAIN chunks
    /\ (status = "running" /\ \A a \in BagToSet(live) : ~TooBig(a.n))
          => LargeChunks(Heap) = {}

\* a large block whose mapping is two pages was freed while a bucketed block is live
C11_Witness ==
    /\ last.op = "xfree" /\ status = "running" /\ last.arg # NULL /\ TooBig(last.n)
    /\ Cardinality(MappingPages(last.pre,
                                last.pre.blocks[last.arg - SizeofBlockHead])) = 2
    /\ live # EmptyBag

\* the length xfree(ptr) passes to munmap in memory h, 0 if it does not call it
XfreeUnmapLen(h, ptr) ==
    LET item_head == ptr - SizeofBlockHead
        item_chunk_head == ParentChunk(h, item_head)
    IN  IF Readable(h, item_head) /\ HoldsHead(h, item_chunk_head)
           /\ Load(h, item_chunk_head).bucket_index = -1
        THEN Load(h, item_chunk_head).chunk_size
        ELSE 0

\* C12 (as claimed): the length xfree passes to munmap is the length the xmalloc
\* that made the mapping passed to mmap, and a positive multiple of PAGE_SIZE.
C12_UnmapLenIsMapLen ==
    (last.op = "xfree" /\ last.paired /\ XfreeUnmapLen(last.pre, last.arg) # 0)
        => /\ XfreeUnmapLen(last.pre, last.arg) = XmallocMapLen(last.pre0, last.n)
           /\ XfreeUnmapLen(last.pre, last.arg) > 0
           /\ XfreeUnmapLen(last.pre, last.arg) % PAGE_SIZE = 0

\* the threads inside the body of initialize()'s if
InInitBody == {t \in Threads : pc[t] \in {"m_init_heads", "m_init_flag"}}

\* C13 (as claimed): no thread enters the body of initialize() when another is in
\* it or has run it, and none is about to rewrite the heads when a chunk is linked.
C13_InitOnce ==
    \A t \in Threads :
        pc[t] = "m_init_heads"
            => /\ initialized = 0
               /\ InInitBody = {t}
               /\ \A i \in 0..7 : head_bucket_list[i].next \notin DOMAIN chunks

\* the places in class b_index's list of the chunks whose map is not all 1-bits
NotFilled(h, b_index) ==
    {k \in 1..Len(ChunkList(h, b_index)) :
        ~EQUAL(Load(h, ChunkList(h, b_index)[k]).allocations, FILLED_STRING)}

\* C14: a bucketed xmalloc calls mmap exactly when no chunk linked in its class
\* list has a free slot; otherwise it maps nothing and takes its slot from the
\* first chunk of the list, from the head's next link on, that is not filled.
C14_ReuseBeforeNewChunk ==
    (last.op = "xmalloc" /\ last.b_index # -1)
        => LET h0 == initialize(last.pre)
               open == NotFilled(h0, last.b_index)
           IN  /\ (last.map # NULL) <=> (open = {})
               /\ (open # {} /\ status = "running")
                     => /\ mapped = last.pre.mapped
                        /\ blocks[last.ret - SizeofBlockHead]
                              = ChunkList(h0, last.b_index)[MinOf(open)]

\* the first chunk of the list was filled and xmalloc took the slot freed in the
\* chunk behind it
C14_Witness ==
    /\ last.op = "xmalloc" /\ last.b_index # -1 /\ status = "running"
    /\ nfrees > 0
    /\ NotFilled(last.pre, last.b_index) # {}
    /\ 1 \notin NotFilled(last.pre, last.b_index)

\* the members of class b_index's ring: its head and the chunks linked behind it
RingMembers(h, b_index) ==
    {HeadAddr(b_index)}
        \cup {ChunkList(h, b_index)[k] : k \in 1..Len(ChunkList(h, b_index))}

PatternsFit ==
    \A b \in 0..7 :
        /\ ClassSlots[b] = 0..(SlotCount[b] - 1)
        /\ SUPPORTED_BUCKETS_SIZES[b] * SlotCount[b] + SizeofBucketHead
              <= SUPPORTED_BUCKETS_PAGES[b] * PAGE_SIZE

\* C16: each class's empty pattern has its 0 bits exactly at 0..slot_count-1,
\* slot_size * slot_count + sizeof(bucket_head) is at most the chunk's bytes, and
\* every bucketed block handed out lies, header and slot, in mapped pages of its chunk.
C16_SlotsInsideChunk ==
    /\ PatternsFit
    /\ \A a \in BagToSet(live) :
          Bucketed(a)
             => LET c == blocks[a.ptr - SizeofBlockHead]
                    size == SUPPORTED_BUCKETS_SIZES[chunks[c].bucket_index]
                    location == a.ptr - SizeofBlockHead
                IN  /\ location >= c + SizeofBucketHead
                    /\ location + size <= c + chunks[c].chunk_size
                    /\ \A pg \in PageOf(location)..PageOf(location + size - 1) :
                          pg \in mapped

\* the last slot of a chunk of the last class is handed out
C16_Witness ==
    /\ last.op = "xmalloc" /\ status = "running" /\ last.b_index = 7
    /\ last.ret = SlotPtr(blocks[last.ret - SizeofBlockHead], SlotCount[7] - 1, 7)

\* the indices of a bitstring whose bit is 0, in FLIP's numbering
ZeroBits(a) == {i \in 0..255 : ~BitAt(a, i)}
\* one plus the lowest index whose bit is 0, and 0 for the filled string
LowestFree(a) == IF ZeroBits(a) = {} THEN 0 ELSE 1 + MinOf(ZeroBits(a))

\* the bitstring whose 0 bits are the indices of S, in FLIP's numbering: index
\* 64 * k + j is bit j of the word s[3 - k]
MapWithFree(S) ==
    [w \in 0..3 |-> {j \in 0..63 : (3 - w) * 64 + j \in S}]

\* the maps of a chunk of class b with its first k slots taken, and with one of
\* those given back (the first, or the middle one)
SweepMaps(b, k) ==
    LET open == ClassSlots[b] \ 0..(k - 1)
    IN  {MapWithFree(open)}
            \cup {MapWithFree(open \cup {j}) : j \in {0, k \div 2} \cap 0..(k - 1)}

\* whether, on the maps of every class from the empty to the filled chunk, NFFS
\* gives one plus the lowest free index and 0 only for the filled string, and
\* FLIP at that index takes exactly that slot
NffsLowest ==
    \A b \in 0..7 : \A k \in 0..SlotCount[b] : \A m \in SweepMaps(b, k) :
        /\ NFFS(m) = LowestFree(m)
        /\ (NFFS(m) = 0) <=> EQUAL(m, FILLED_STRING)
        /\ NFFS(m) # 0
              => FLIP(m, NFFS(m) - 1) = MapWithFree(ZeroBits(m) \ {NFFS(m) - 1})

\* the map of the chunk a bucketed xmalloc chose, as the call found it
MapFound(h0, c, b_index) ==
    IF c \in DOMAIN h0.chunks THEN h0.chunks[c].allocations
    ELSE SUPPORTED_BUCKETS_BITSTRINGS[b_index]

\* C17: NFFS is one plus the lowest index whose bit is 0 (0 only for the filled
\* string), and a bucketed xmalloc hands out the slot of the lowest free index of
\* the chunk it chose and sets that bit and no other.
C17_LowestFreeSlot ==
    /\ NffsLowest
    /\ (last.op = "xmalloc" /\ last.b_index # -1 /\ status = "running")
          => LET c == blocks[last.ret - SizeofBlockHead]
                 found == MapFound(initialize(last.pre), c, last.b_index)
                 lowest == MinOf(ZeroBits(found))
             IN  /\ ZeroBits(found) # {}
                 /\ last.ret = SlotPtr(c, lowest, last.b_index)
                 /\ ZeroBits(chunks[c].allocations) = ZeroBits(found) \ {lowest}

\* xmalloc took a slot given back earlier, below a slot that is still handed out
C17_Witness ==
    /\ last.op = "xmalloc" /\ last.b_index # -1 /\ status = "running"
    /\ \E a \in BagToSet(live) :
          /\ a.ptr > last.ret
          /\ blocks[a.ptr - SizeofBlockHead] = blocks[last.ret - SizeofBlockHead]

\* whether, for every class, every slot index i xmalloc can hand out and every
\* base mmap returns, xfree's item_index for the block_head of slot i is i
IndexRecomputed ==
    \A c \in {RegionBase(k) : k \in 1..MaxMaps} : \A b \in 0..7 :
        \A i \in SlotsOf(b) :
            ItemIndex([chunks |-> (c :> [ZeroHead EXCEPT !.bucket_index = b])],
                      SlotLocation(c, i, b), c) = i

\* C18: xfree of a bucketed block follows the back-reference to the chunk the block
\* was carved from, reads the class it was allocated from, recomputes the index of
\* its slot, and clears that slot's bit and no other bit of any chunk.
C18_FreeClearsSameBit ==
    /\ IndexRecomputed
    /\ (last.op = "xfree" /\ status = "running" /\ last.arg # NULL /\ ~TooBig(last.n))
          => LET item_head == last.arg - SizeofBlockHead
                 c == last.pre.blocks[item_head]
                 b == last.pre.chunks[c].bucket_index
                 before == last.pre.chunks[c].allocations
             IN  /\ b = get_bucket(last.n + SizeofBlockHead)
                 /\ \E i \in SlotsOf(b) :
                       /\ last.arg = SlotPtr(c, i, b)
                       /\ ItemIndex(last.pre, item_head, c) = i
                       /\ BitAt(before, i)
                       /\ ZeroBits(chunks[c].allocations) = ZeroBits(before) \cup {i}
                 /\ \A x \in DOMAIN chunks \ {c} :
                       chunks[x].allocations = last.pre.chunks[x].allocations
                 /\ last.paired
                       => chunks[c].allocations
                             = MapFound(initialize(last.pre0), c, b)

\* xfree gave back a slot past the first of a chunk in which other slots stay
\* handed out
C18_Witness ==
    /\ last.op = "xfree" /\ status = "running" /\ last.arg # NULL /\ ~TooBig(last.n)
    /\ LET c == last.pre.blocks[last.arg - SizeofBlockHead]
       IN  /\ last.arg # SlotPtr(c, 0, last.pre.chunks[c].bucket_index)
           /\ ZeroBits(chunks[c].allocations)
                 # ZeroBits(SUPPORTED_BUCKETS_BITSTRINGS[chunks[c].bucket_index])

(***************************************************************************)
(* The callers of xv6_malloc.c.  Each thread runs its call step by step;   *)
(* pthread_mutex_lock lets a thread on only while nobody holds the mutex.  *)
(***************************************************************************)
XvSizes == {16}
XvReallocSizes == {0, 24, 40}
XvLivePtrs == {a.ptr : a \in xlive}
\* the calls of xmalloc in progress, xrealloc's among them
XvAsking ==
    Cardinality({t \in Threads : xpc[t] # "idle" /\ xloc[t].cont # "xr_done"
                                    /\ ~(xpc[t] \in {"xf_lock", "xf_helper", "xf_unlock"}
                                         /\ xloc[t].cont = "idle")})

InitXv6 == InitMemory /\ workload = "xv6"

XvGoto(t, label) == xpc' = [xpc EXCEPT ![t] = label]
\* pthread_mutex_lock(&lock), once it returns
pthread_mutex_lock(lk, t) == t
\* pthread_mutex_unlock(&lock)
pthread_mutex_unlock(lk, t) == IF lk = t THEN PTHREAD_MUTEX_INITIALIZER ELSE lk

\* thread t calls xmalloc(nbytes)
X_xmalloc(t, nbytes) ==
    /\ xstatus = "running" /\ xpc[t] = "idle"
    /\ xcalls < XvMaxCalls
    /\ xcalls' = xcalls + 1
    /\ Cardinality(xlive) + XvAsking < XvMaxLive
    /\ XvGoto(t, "xm_lock")
    /\ xloc' = [xloc EXCEPT ![t] = [NoXvLocals EXCEPT !.nbytes = nbytes]]
    /\ UNCHANGED <<lock, freep, headers, xmaps, xstatus, xlive, xlast>>
    /\ UNCHANGED OptVars

\* thread t calls xfree(ap) on a pointer it holds, and holds it no longer
X_xfree(t, ap) ==
    /\ xstatus = "running" /\ xpc[t] = "idle"
    /\ xcalls < XvMaxCalls
    /\ xcalls' = xcalls + 1
    /\ ap \in XvLivePtrs
    /\ xlive' = {a \in xlive : a.ptr # ap}
    /\ XvGoto(t, "xf_lock")
    /\ xloc' = [xloc EXCEPT ![t] = [NoXvLocals EXCEPT !.ap = ap]]
    /\ UNCHANGED <<lock, freep, headers, xmaps, xstatus, xlast>>
    /\ UNCHANGED OptVars

\* thread t calls xrealloc(prev, nn), prev a pointer it holds or NULL
X_xrealloc(t, prev, nn) ==
    /\ xstatus = "running" /\ xpc[t] = "idle"
    /\ xcalls < XvMaxCalls
    /\ xcalls' = xcalls + 1
    /\ prev \in XvLivePtrs \cup {NULL}
    /\ prev = NULL => Cardinality(xlive) + XvAsking < XvMaxLive
    /\ xlive' = {a \in xlive : a.ptr # prev}
    /\ XvGoto(t, "xr_entry")
    /\ xloc' = [xloc EXCEPT ![t] = [NoXvLocals EXCEPT !.prev = prev, !.nn = nn]]
    /\ UNCHANGED <<lock, freep, headers, xmaps, xstatus, xlast>>
    /\ UNCHANGED OptVars

\* xrealloc: the two early returns, or the old block's size is read and
\* xmalloc(nn) is called
X_realloc_entry(t) ==
    /\ xstatus = "running" /\ xpc[t] = "xr_entry"
    /\ LET prev == xloc[t].prev
           nn == xloc[t].nn
       IN  IF prev = NULL
           THEN /\ XvGoto(t, "xm_lock")
                /\ xloc' = [xloc EXCEPT ![t] = [NoXvLocals EXCEPT !.nbytes = nn]]
           ELSE IF nn = 0
           THEN /\ XvGoto(t, "xf_lock")
                /\ xloc' = [xloc EXCEPT ![t] = [NoXvLocals EXCEPT !.ap = prev]]
           ELSE /\ XvGoto(t, "xm_lock")
                /\ xloc' = [xloc EXCEPT
                              ![t].block_size =
                                  HeaderAt(headers, prev - SizeofHeader).size
                                      * SizeofHeader,
                              ![t].nbytes = nn,
                              ![t].cont = "xr_copy"]
    /\ UNCHANGED <<xcalls, lock, freep, headers, xmaps, xstatus, xlive, xlast>>
    /\ UNCHANGED OptVars

\* xmalloc: pthread_mutex_lock(&lock)
X_malloc_lock(t) ==
    /\ xstatus = "running" /\ xpc[t] = "xm_lock"
    /\ lock = PTHREAD_MUTEX_INITIALIZER
    /\ lock' = pthread_mutex_lock(lock, t)
    /\ XvGoto(t, "xm_init")
    /\ UNCHANGED <<xcalls, freep, headers, xmaps, xstatus, xlive, xlast, xloc>>
    /\ UNCHANGED OptVars

\* xmalloc: nunits, the first call's base.s.ptr = freep = prevp = &base, and
\* the start of the loop
X_malloc_init(t) ==
    /\ xstatus = "running" /\ xpc[t] = "xm_init"
    /\ LET first == freep = NULL
           hd == IF first THEN StoreHeader(headers, BaseAddr,
                                           [ptr |-> BaseAddr, size |-> 0])
                 ELSE headers
           prevp == IF first THEN BaseAddr ELSE freep
       IN  /\ headers' = hd
           /\ freep' = prevp
           /\ xloc' = [xloc EXCEPT ![t].nunits = NUnits(xloc[t].nbytes),
                                   ![t].prevp = prevp,
                                   ![t].p = HeaderAt(hd, prevp).ptr]
    /\ XvGoto(t, "xm_loop")
    /\ UNCHANGED <<xcalls, lock, xmaps, xstatus, xlive, xlast>>
    /\ UNCHANGED OptVars

\* xmalloc: one pass of the loop over the free list
X_malloc_loop(t) ==
    /\ xstatus = "running" /\ xpc[t] = "xm_loop"
    /\ LET p == xloc[t].p
           prevp == xloc[t].prevp
           nunits == xloc[t].nunits
           size == HeaderAt(headers, p).size
           tail == UnitsOn(p, size - nunits)
       IN  IF size >= nunits
           THEN /\ headers' =
                     IF size = nunits
                     THEN StoreHeader(headers, prevp,
                              [ptr |-> HeaderAt(headers, p).ptr,
                               size |-> HeaderAt(headers, prevp).size])
                     ELSE StoreHeader(
                              StoreHeader(headers, p,
                                  [ptr |-> HeaderAt(headers, p).ptr,
                                   size |-> size - nunits]),
                              tail,
                              [ptr |-> HeaderAt(headers, tail).ptr, size |-> nunits])
                /\ freep' = prevp
                /\ xloc' = [xloc EXCEPT ![t].p = IF size = nunits THEN p ELSE tail]
                /\ XvGoto(t, "xm_unlock")
           ELSE IF p = freep
           THEN /\ XvGoto(t, "xm_morecore")
                /\ UNCHANGED <<headers, freep, xloc>>
           ELSE /\ xloc' = [xloc EXCEPT ![t].prevp = p,
                                        ![t].p = HeaderAt(headers, p).ptr]
                /\ UNCHANGED <<headers, freep, xpc>>
    /\ UNCHANGED <<xcalls, lock, xmaps, xstatus, xlive, xlast>>
    /\ UNCHANGED OptVars

\* xmalloc: p = morecore(nunits), and on to the next block or to the failure
X_malloc_morecore(t) ==
    /\ xstatus = "running" /\ xpc[t] = "xm_morecore"
    /\ \E map \in XvMmapResults(xmaps) :
         LET r == morecore(headers, freep, xloc[t].nunits, map)
         IN  /\ headers' = r.headers
             /\ freep' = r.freep
             /\ xstatus' = r.status
             /\ xmaps' = IF map = MAP_FAILED THEN xmaps ELSE xmaps + 1
             /\ IF r.ret = 0
                THEN /\ XvGoto(t, "xm_fail")
                     /\ UNCHANGED xloc
                ELSE /\ XvGoto(t, "xm_loop")
                     /\ xloc' = [xloc EXCEPT ![t].prevp = r.ret,
                                             ![t].p = HeaderAt(r.headers, r.ret).ptr]
    /\ UNCHANGED <<xcalls, lock, xlive, xlast>>
    /\ UNCHANGED OptVars

\* what the caller of xmalloc does with the result ret
XvReturnMalloc(t, ret) ==
    IF xloc[t].cont = "xr_copy"
    THEN /\ XvGoto(t, "xr_copy")
         /\ xloc' = [xloc EXCEPT ![t].new_data = ret]
         /\ UNCHANGED xlive
    ELSE /\ XvGoto(t, "idle")
         /\ xloc' = [xloc EXCEPT ![t] = NoXvLocals]
         /\ xlive' = IF ret = NULL THEN xlive
                     ELSE xlive \cup {[ptr |-> ret, n |-> xloc[t].nbytes]}

\* xmalloc: pthread_mutex_unlock(&lock); return (void*)(p + 1)
X_malloc_unlock(t) ==
    /\ xstatus = "running" /\ xpc[t] = "xm_unlock"
    /\ lock' = pthread_mutex_unlock(lock, t)
    /\ XvReturnMalloc(t, UnitsOn(xloc[t].p, 1))
    /\ UNCHANGED <<xcalls, freep, headers, xmaps, xstatus, xlast>>
    /\ UNCHANGED OptVars

\* the failure path that leaves the mutex locked
X_malloc_fail_locked(t) ==
    /\ xstatus = "running" /\ xpc[t] = "xm_fail"
    /\ XvReturnMalloc(t, NULL)
    /\ xlast' = [NoXvCall EXCEPT !.op = "nomem", !.t = t]
    /\ UNCHANGED <<xcalls, lock, freep, headers, xmaps, xstatus>>
    /\ UNCHANGED OptVars

\* xmalloc, morecore failed: pthread_mutex_unlock(&lock); return 0
X_malloc_fail(t) ==
    /\ xstatus = "running" /\ xpc[t] = "xm_fail"
    /\ lock' = pthread_mutex_unlock(lock, t)
    /\ XvReturnMalloc(t, NULL)
    /\ xlast' = [NoXvCall EXCEPT !.op = "nomem", !.t = t]
    /\ UNCHANGED <<xcalls, freep, headers, xmaps, xstatus>>
    /\ UNCHANGED OptVars

\* xrealloc: the memcpy into the new block, then xfree(prev) is called
X_realloc_copy(t) ==
    /\ xstatus = "running" /\ xpc[t] = "xr_copy"
    /\ LET n == CopyLen(xloc[t].block_size, xloc[t].nn)
       IN  /\ xlast' = [op |-> "memcpy", t |-> t, prev |-> xloc[t].prev,
                        nn |-> xloc[t].nn,
                        cap |-> UsableBytes(headers, xloc[t].prev), copied |-> n]
           /\ xstatus' = IF xloc[t].new_data = NULL /\ n > 0 THEN "segv" ELSE xstatus
    /\ XvGoto(t, "xf_lock")
    /\ xloc' = [xloc EXCEPT ![t].ap = xloc[t].prev, ![t].cont = "xr_done"]
    /\ UNCHANGED <<xcalls, lock, freep, headers, xmaps, xlive>>
    /\ UNCHANGED OptVars

\* xfree: pthread_mutex_lock(&lock)
X_free_lock(t) ==
    /\ xstatus = "running" /\ xpc[t] = "xf_lock"
    /\ lock = PTHREAD_MUTEX_INITIALIZER
    /\ lock' = pthread_mutex_lock(lock, t)
    /\ XvGoto(t, "xf_helper")
    /\ UNCHANGED <<xcalls, freep, headers, xmaps, xstatus, xlive, xlast, xloc>>
    /\ UNCHANGED OptVars

\* xfree: xfree_helper(ap)
X_free_helper(t) ==
    /\ xstatus = "running" /\ xpc[t] = "xf_helper"
    /\ LET r == xfree_helper(headers, freep, xloc[t].ap)
       IN  /\ headers' = r.headers
           /\ freep' = r.freep
           /\ xstatus' = r.status
    /\ XvGoto(t, "xf_unlock")
    /\ UNCHANGED <<xcalls, lock, xmaps, xlive, xlast, xloc>>
    /\ UNCHANGED OptVars

\* xfree: pthread_mutex_unlock(&lock) and the return; xrealloc then returns
\* new_data to its caller
X_free_unlock(t) ==
    /\ xstatus = "running" /\ xpc[t] = "xf_unlock"
    /\ lock' = pthread_mutex_unlock(lock, t)
    /\ xlive' = IF xloc[t].cont = "xr_done" /\ xloc[t].new_data # NULL
                THEN xlive \cup {[ptr |-> xloc[t].new_data, n |-> xloc[t].nn]}
                ELSE xlive
    /\ XvGoto(t, "idle")
    /\ xloc' = [xloc EXCEPT ![t] = NoXvLocals]
    /\ UNCHANGED <<xcalls, freep, headers, xmaps, xstatus, xlast>>
    /\ UNCHANGED OptVars

NextXv6 ==
    \E t \in Threads :
        \/ \E nbytes \in XvSizes : X_xmalloc(t, nbytes)
        \/ \E ap \in XvLivePtrs : X_xfree(t, ap)
        \/ \E prev \in XvLivePtrs \cup {NULL}, nn \in XvReallocSizes :
             X_xrealloc(t, prev, nn)
        \/ X_realloc_entry(t)
        \/ X_malloc_lock(t)
        \/ X_malloc_init(t)
        \/ X_malloc_loop(t)
        \/ X_malloc_morecore(t)
        \/ X_malloc_unlock(t)
        \/ X_malloc_fail(t)
        \/ X_realloc_copy(t)
        \/ X_free_lock(t)
        \/ X_free_helper(t)
        \/ X_free_unlock(t)

SpecXv6 == InitXv6 /\ [][NextXv6]_vars

(***************************************************************************)
(* xv6_malloc.c: what xrealloc copies, and who holds the mutex.            *)
(***************************************************************************)
\* C19: growing or shrinking a block of usable capacity c to nn bytes,
\* xrealloc copies exactly min(c, nn) bytes from the old block, so it never
\* reads past the end of the old block's usable region
C19_CopiesMinOfCapacity ==
    xlast.op = "memcpy" =>
        xlast.copied = (IF xlast.cap < xlast.nn THEN xlast.cap ELSE xlast.nn)

\* the steps of a call that read or write freep or a Header of the free list
InCriticalSection ==
    {"xm_init", "xm_loop", "xm_morecore", "xm_unlock", "xm_fail",
     "xf_helper", "xf_unlock"}

RECURSIVE FreeListFrom(_, _, _, _)
\* the Headers of the circular free list from p round to stop
FreeListFrom(hd, p, stop, fuel) ==
    IF fuel = 0 THEN {}
    ELSE {p} \cup (IF HeaderAt(hd, p).ptr = stop THEN {}
                   ELSE FreeListFrom(hd, HeaderAt(hd, p).ptr, stop, fuel - 1))
\* the Headers on the free list: base and the free blocks
FreeList ==
    IF freep = NULL THEN {}
    ELSE FreeListFrom(headers, freep, freep, Cardinality(DOMAIN headers) + 1)

\* C20: a thread is at a step that touches the free list only while it holds
\* the mutex, and a thread outside those steps (before its lock, after any of
\* its returns, the return after a failed morecore among them) does not hold
\* it: the mutex is held only by a thread that will go on to unlock it.  The
\* one Header read without the mutex, xrealloc's read of its own block's
\* size, is not a Header of the free list.
C20_FreeListUnderMutex ==
    /\ \A t \in Threads : xpc[t] \in InCriticalSection => lock = t
    /\ \A t \in Threads : xpc[t] \notin InCriticalSection => lock # t
    /\ lock \in Threads \cup {PTHREAD_MUTEX_INITIALIZER}
    /\ \A t \in Threads :
          xpc[t] = "xr_entry" /\ xloc[t].prev # NULL =>
              /\ xloc[t].prev - SizeofHeader \in DOMAIN headers
              /\ xloc[t].prev - SizeofHeader \notin FreeList

\* morecore failed in a call of xmalloc, the call has returned 0, and a later
\* caller holds the mutex
C20_Witness ==
    /\ xlast.op = "nomem"
    /\ xpc[xlast.t] \notin InCriticalSection
    /\ lock \in Threads
    /\ xmaps = 0

====
